---------------------------- MODULE Spec2Model ----------------------------
(***************************************************************************)
(* Pharma sales analytics: the synthetic data generator                    *)
(* (data_processor.py, PharmaDataGenerator) and the analytics engine       *)
(* (analytics_dashboard.py, PharmaAnalytics).                              *)
(*                                                                         *)
(* Numbers.  A pandas/numpy float64 is modelled as a record                *)
(* [k, n, d]: k = "num" is the rational n/d in lowest terms (d > 0),       *)
(* k = "nan", "inf", "ninf" are the IEEE special values that a division    *)
(* by zero produces.  Arithmetic is exact on the rationals, so rounding    *)
(* error of the binary representation is outside the model.                *)
(* A date is a month ordinal year*12 + (month-1); generated dates are      *)
(* always month ends (freq='M').                                           *)
(***************************************************************************)
EXTENDS Integers, Sequences, FiniteSets, TLC

----------------------------------------------------------------------------
(* float64 arithmetic *)

Abs(x) == IF x < 0 THEN -x ELSE x

RECURSIVE Gcd(_, _)
Gcd(a, b) == IF b = 0 THEN a ELSE Gcd(b, a % b)

NaN == [k |-> "nan", n |-> 0, d |-> 1]
Inf == [k |-> "inf", n |-> 0, d |-> 1]
NInf == [k |-> "ninf", n |-> 0, d |-> 1]

\* the rational n/d (d # 0) in lowest terms
Num(n, d) ==
    LET g == Gcd(Abs(n), Abs(d))
        s == IF d < 0 THEN -1 ELSE 1
    IN  [k |-> "num", n |-> s * (n \div g), d |-> s * (d \div g)]

I(n) == [k |-> "num", n |-> n, d |-> 1]

IsNum(a) == a.k = "num"
IsNaN(a) == a.k = "nan"

\* -1, 0, 1 for a non-NaN value
Sign(a) ==
    CASE a.k = "inf" -> 1
      [] a.k = "ninf" -> -1
      [] OTHER -> IF a.n > 0 THEN 1 ELSE IF a.n < 0 THEN -1 ELSE 0

FNeg(a) ==
    CASE a.k = "nan" -> NaN
      [] a.k = "inf" -> NInf
      [] a.k = "ninf" -> Inf
      [] OTHER -> Num(-a.n, a.d)

FAdd(a, b) ==
    CASE IsNaN(a) \/ IsNaN(b) -> NaN
      [] IsNum(a) /\ IsNum(b) -> Num(a.n * b.d + b.n * a.d, a.d * b.d)
      [] IsNum(a) -> b
      [] IsNum(b) -> a
      [] OTHER -> IF a.k = b.k THEN a ELSE NaN

FSub(a, b) == FAdd(a, FNeg(b))

FMul(a, b) ==
    CASE IsNaN(a) \/ IsNaN(b) -> NaN
      [] IsNum(a) /\ IsNum(b) -> Num(a.n * b.n, a.d * b.d)
      [] OTHER -> LET s == Sign(a) * Sign(b)
                  IN  IF s = 0 THEN NaN ELSE IF s > 0 THEN Inf ELSE NInf

\* IEEE division as numpy performs it: x/0 is +-inf, 0/0 is nan, no exception
FDiv(a, b) ==
    CASE IsNaN(a) \/ IsNaN(b) -> NaN
      [] IsNum(a) /\ IsNum(b) ->
            IF b.n # 0 THEN Num(a.n * b.d, a.d * b.n)
            ELSE IF a.n = 0 THEN NaN
            ELSE IF a.n > 0 THEN Inf ELSE NInf
      [] IsNum(a) -> I(0)
      [] IsNum(b) -> IF Sign(a) * (IF b.n < 0 THEN -1 ELSE 1) > 0 THEN Inf ELSE NInf
      [] OTHER -> NaN

\* a > b; every comparison with NaN is False
FGt(a, b) ==
    CASE IsNaN(a) \/ IsNaN(b) -> FALSE
      [] IsNum(a) /\ IsNum(b) -> a.n * b.d > b.n * a.d
      [] a.k = "inf" -> b.k # "inf"
      [] a.k = "ninf" -> FALSE
      [] OTHER -> b.k = "ninf"

FGe(a, b) == FGt(a, b) \/ (~IsNaN(a) /\ a = b)

\* np.maximum: NaN propagates
FMax(a, b) ==
    IF IsNaN(a) \/ IsNaN(b) THEN NaN ELSE IF FGt(b, a) THEN b ELSE a

\* floor of the rational n/d, d > 0
FloorDiv(n, d) == IF n >= 0 THEN n \div d ELSE -((-n + d - 1) \div d)

\* n/d (d > 0) rounded to the nearest integer, halves to the even neighbour
RoundHalfEven(n, d) ==
    LET f == FloorDiv(n, d)
        r == 2 * (n - f * d)
    IN  IF r < d THEN f
        ELSE IF r > d THEN f + 1
        ELSE IF f % 2 = 0 THEN f ELSE f + 1

\* np.round / Series.round to `scale` = 10^decimals; NaN and inf pass through
FRound(a, scale) ==
    IF IsNum(a) THEN Num(RoundHalfEven(a.n * scale, a.d), scale) ELSE a

----------------------------------------------------------------------------
(* calendar fields of a month-end date *)

Ym(y, m) == y * 12 + (m - 1)
YearOf(date) == date \div 12
MonthOf(date) == (date % 12) + 1
QuarterOf(date) == ((MonthOf(date) - 1) \div 3) + 1

----------------------------------------------------------------------------
(* bounds of the model *)

\* number of states of the random source (the period of its stream)
RngModulus == 7
\* create_pharma_dataset calls recorded per run
MaxCalls == 2
\* rows of the CSV files handed to the analytics
MaxRows == 16
\* rows of the frames handed to add_market_metrics
MaxMetricRows == 13
\* rows of the unvalidated CSV files handed to the loader
MaxRawRows == 3

----------------------------------------------------------------------------
(* state *)

VARIABLES
    rng,      \* state of numpy's process-wide random source (np.random)
    gen,      \* TRUE once a PharmaDataGenerator has been constructed
    made,     \* the create_pharma_dataset calls so far: <<[start, periods, df]>>
    config,   \* per-series parameters handed to the series computation
    sales,    \* <<>> or <<[state, values]>>: the sales array computed for config
              \* and the state of the random source it was drawn from
    frame,    \* the caller's DataFrame object handed to add_market_metrics
    before,   \* <<>> or <<content of frame when add_market_metrics was entered>>
    ret,      \* <<>> or <<content of the object add_market_metrics returned>>
    file,     \* rows of the CSV file PharmaAnalytics reads
    adf,      \* <<>> or <<PharmaAnalytics.df>>
    stats,    \* <<>> or <<result of generate_summary_stats>>
    report,   \* the detect_anomalies results so far: z_threshold -> anomalies
    summary   \* <<>> or <<result of export_insights_for_gemini>>

vars == <<rng, gen, made, config, sales, frame, before, ret, file, adf, stats,
          report, summary>>

genVars == <<gen, made>>
seriesVars == <<config, sales>>
metricVars == <<frame, before, ret>>
analyticsVars == <<file, adf, stats, report, summary>>

\* a DataFrame is a function from column names to equally long sequences
NRows(df) == Len(df["Date"])
EmptyFrame == [c \in {"Date"} |-> <<>>]

----------------------------------------------------------------------------
(* PharmaDataGenerator *)

DrugCols == <<"Lipitor", "Humira", "Keytruda", "Revlimid">>
Drugs == {DrugCols[j] : j \in 1..Len(DrugCols)}

Cfg(b, t, s, v) == [base |-> b, trend |-> t, seasonality |-> s, volatility |-> v]

drug_configs ==
    [d \in Drugs |->
        CASE d = "Lipitor" -> Cfg(I(850), Num(1, 2), I(50), I(25))
          [] d = "Humira" -> Cfg(I(1200), I(2), I(80), I(40))
          [] d = "Keytruda" -> Cfg(I(950), I(5), I(30), I(60))
          [] d = "Revlimid" -> Cfg(I(720), I(-1), I(40), I(35))]

\* np.random.seed(42)
SeedValue == 42
Seed(k) == k % RngModulus

\* the random source is a counter-based stream: one step per gaussian drawn
RngNext(s) == (s + 1) % RngModulus

RECURSIVE RngAfter(_, _)
RngAfter(s, k) == IF k = 0 THEN s ELSE RngAfter(RngNext(s), k - 1)

\* the standard normal deviate the source yields in state s, in halves; the
\* table holds a far negative tail value so that the floor is exercised
ZTable == <<0, 1, -1, 3, -60>>
StdNormal(s) == Num(ZTable[(s % Len(ZTable)) + 1], 2)

\* np.random.normal(loc, scale, size)[i] drawn from state s (i from 0)
Normal(loc, scale, s, i) == FAdd(loc, FMul(scale, StdNormal(RngAfter(s, i + 1))))

\* np.linspace(start, stop, num)[i] (i from 0)
Linspace(start, stop, num, i) ==
    IF num = 1 THEN start
    ELSE FAdd(start, FDiv(FMul(I(i), FSub(stop, start)), I(num - 1)))

\* np.sin of an angle given in quarter turns (multiples of pi/2)
SinQuarter(q) ==
    LET r == q.n % 4
    IN  IF r = 1 THEN I(1) ELSE IF r = 3 THEN I(-1) ELSE I(0)

\* period counts for which every angle of linspace(0, 2*pi*3, periods) + pi/2
\* is a multiple of pi/2, where the sine is exactly -1, 0 or 1
PeriodChoices == {0, 1, 2, 3, 4, 5, 7, 13}

\* the unclamped sum base + trend + seasonal + noise at index i (from 0)
RawSales(c, periods, s, i) ==
    LET trend == Linspace(I(0), FMul(c.trend, I(periods)), periods, i)
        seasonal == FMul(c.seasonality,
                         SinQuarter(FAdd(Linspace(I(0), I(12), periods, i), I(1))))
        noise == Normal(I(0), c.volatility, s, i)
    IN  FAdd(FAdd(FAdd(c.base, trend), seasonal), noise)

\* the floor: np.maximum(sales, config['base'] * 0.3)
SalesUnclamped(raw, c) == raw
ClampSales(raw, c) == FMax(raw, FMul(c.base, Num(3, 10)))

\* np.round(sales).astype(int) for one series, noise drawn from state s
DrugSales(c, periods, s) ==
    [i \in 1..periods |-> FRound(ClampSales(RawSales(c, periods, s, i - 1), c), 1)]

\* pd.date_range(start=start_date, periods=periods, freq='M')
DateRange(start, periods) == [i \in 1..periods |-> start + (i - 1)]

\* the DataFrame of create_pharma_dataset; drug j draws after the j-1 before it
PharmaDataset(start, periods, s) ==
    LET dates == DateRange(start, periods)
    IN  [c \in {"Date", "Month", "Quarter", "Year"} \cup Drugs |->
            CASE c = "Date" -> dates
              [] c = "Month" -> [i \in 1..periods |-> MonthOf(dates[i])]
              [] c = "Quarter" -> [i \in 1..periods |-> QuarterOf(dates[i])]
              [] c = "Year" -> [i \in 1..periods |-> YearOf(dates[i])]
              [] OTHER ->
                  LET j == CHOOSE k \in 1..Len(DrugCols) : DrugCols[k] = c
                  IN  DrugSales(drug_configs[c], periods,
                                RngAfter(s, (j - 1) * periods))]

StartChoices == {Ym(2022, 1), Ym(2022, 11)}

\* PharmaDataGenerator(): seeds the process-wide source
Construct ==
    /\ rng' = Seed(SeedValue)
    /\ gen' = TRUE
    /\ UNCHANGED <<made, seriesVars, metricVars, analyticsVars>>

\* generator.create_pharma_dataset(start_date, periods)
CreatePharmaDataset ==
    /\ gen
    /\ Len(made) < MaxCalls
    /\ \E start \in StartChoices, periods \in PeriodChoices :
          /\ made' = Append(made, [start |-> start, periods |-> periods,
                                   df |-> PharmaDataset(start, periods, rng)])
          /\ rng' = RngAfter(rng, Len(DrugCols) * periods)
    /\ UNCHANGED <<gen, seriesVars, metricVars, analyticsVars>>

\* the series loop body of create_pharma_dataset applied to one parameter set
ComputeSeries ==
    /\ sales = <<>>
    /\ sales' = <<[state |-> rng, values |-> DrugSales(config.c, config.periods, rng)]>>
    /\ rng' = RngAfter(rng, config.periods)
    /\ UNCHANGED <<config, genVars, metricVars, analyticsVars>>

----------------------------------------------------------------------------
(* PharmaDataGenerator.add_market_metrics *)

\* Series.sum / DataFrame.sum: missing values are skipped (skipna=True)
RECURSIVE SumSkipNa(_)
SumSkipNa(xs) ==
    IF xs = <<>> THEN I(0)
    ELSE LET h == Head(xs)
         IN  FAdd(IF IsNaN(h) THEN I(0) ELSE h, SumSkipNa(Tail(xs)))

\* df[drug_cols].sum(axis=1) at row i
RowTotal(df, i) == SumSkipNa([j \in 1..Len(DrugCols) |-> df[DrugCols[j]][i]])

\* (df[drug] / df['Total_Market'] * 100).round(2) at one row
MarketShare(value, total) == FRound(FMul(FDiv(value, total), I(100)), 100)

\* the lag of pct_change(12)
YoYLag == 12

\* Series.shift(k)[i]: missing for the first k rows
Shift(xs, k, i) == IF i > k THEN xs[i - k] ELSE NaN

\* df[drug].pct_change(12) * 100 at row i: (x / x.shift(12) - 1) * 100
PctChange(xs, i) ==
    FMul(FSub(FDiv(xs[i], Shift(xs, YoYLag, i)), I(1)), I(100))

ShareCol(d) == d \o "_Market_Share"
GrowthCol(d) == d \o "_YoY_Growth"

\* the content of df after the column assignments of add_market_metrics
WithMarketMetrics(df) ==
    LET n == NRows(df)
        total == [i \in 1..n |-> RowTotal(df, i)]
        added ==
            [c \in {"Total_Market"} \cup {ShareCol(d) : d \in Drugs}
                                     \cup {GrowthCol(d) : d \in Drugs} |->
                IF c = "Total_Market" THEN total
                ELSE IF \E d \in Drugs : c = ShareCol(d)
                THEN LET d == CHOOSE e \in Drugs : c = ShareCol(e)
                     IN  [i \in 1..n |-> MarketShare(df[d][i], total[i])]
                ELSE LET d == CHOOSE e \in Drugs : c = GrowthCol(e)
                     IN  [i \in 1..n |-> PctChange(df[d], i)]]
    IN  added @@ df

\* generator.add_market_metrics(frame): the columns are assigned on the object
\* passed in, and that same object is returned
AddMarketMetrics ==
    /\ before' = <<frame>>
    /\ frame' = WithMarketMetrics(frame)
    /\ ret' = <<frame'>>
    /\ UNCHANGED <<rng, genVars, seriesVars, analyticsVars>>

----------------------------------------------------------------------------
(* PharmaAnalytics *)

\* PharmaAnalytics(data_path): pd.read_csv of the file, Date parsed; the rows
\* are taken as they are, nothing is validated
Load ==
    /\ adf = <<>>
    /\ adf' = <<file>>
    /\ UNCHANGED <<rng, file, stats, report, summary, genVars, seriesVars, metricVars>>

SeqToSet(xs) == {xs[i] : i \in 1..Len(xs)}

\* self.df[drug].sum()
ColTotal(df, d) == SumSkipNa(df[d])

\* self.df[self.drug_cols].sum().sum()
GrandTotal(df) == SumSkipNa([j \in 1..Len(DrugCols) |-> ColTotal(df, DrugCols[j])])

\* Series.mean(): the sum over the count; NaN for an empty series
Mean(xs) == FDiv(SumSkipNa(xs), I(Len(xs)))

\* Series.idxmax() over the column totals: the first label holding the maximum
IdxMax(df) ==
    LET j == CHOOSE k \in 1..Len(DrugCols) :
                 /\ \A m \in 1..Len(DrugCols) :
                        FGe(ColTotal(df, DrugCols[k]), ColTotal(df, DrugCols[m]))
                 /\ \A m \in 1..(k - 1) :
                        ColTotal(df, DrugCols[m]) # ColTotal(df, DrugCols[k])
    IN  DrugCols[j]

\* self.df.groupby('Year')[self.drug_cols].sum(): year -> drug -> sum
YearlyData(df) ==
    [y \in SeqToSet(df["Year"]) |->
        LET idx == SelectSeq([i \in 1..NRows(df) |-> i], LAMBDA i : df["Year"][i] = y)
        IN  [d \in Drugs |-> SumSkipNa([k \in 1..Len(idx) |-> df[d][idx[k]]])]]

\* self.df['Year'].max() of a non-empty frame
MaxYear(df) == CHOOSE y \in SeqToSet(df["Year"]) : \A z \in SeqToSet(df["Year"]) : z <= y

\* the 'yoy_growth' entry: <<>> when the year before the latest is not in the data
YoYGrowth(df) ==
    IF NRows(df) = 0 THEN <<>>
    ELSE LET yearly == YearlyData(df)
             latest_year == MaxYear(df)
             prev_year == latest_year - 1
         IN  IF prev_year \in DOMAIN yearly
             THEN <<[d \in Drugs |->
                       FMul(FDiv(FSub(yearly[latest_year][d], yearly[prev_year][d]),
                                 yearly[prev_year][d]), I(100))]>>
             ELSE <<>>

\* the dictionary generate_summary_stats returns
SummaryStats(df) ==
    [total_sales |-> GrandTotal(df),
     avg_monthly_sales |-> Mean([i \in 1..NRows(df) |-> RowTotal(df, i)]),
     best_performing_drug |-> IdxMax(df),
     market_leader_share |->
         FMul(FDiv(ColTotal(df, IdxMax(df)), GrandTotal(df)), I(100)),
     yearly_totals |-> YearlyData(df),
     yoy_growth |-> YoYGrowth(df)]

\* analytics.generate_summary_stats()
GenerateSummaryStats ==
    /\ adf # <<>>
    /\ stats' = <<SummaryStats(adf[1])>>
    /\ UNCHANGED <<rng, file, adf, report, summary, genVars, seriesVars, metricVars>>

\* Series.std(): the sample standard deviation (ddof=1), NaN below two rows.
\* A standard deviation is kept by its square, [sq |-> variance].
Std(xs) ==
    LET m == Mean(xs)
        devsq == [i \in 1..Len(xs) |-> FMul(FSub(xs[i], m), FSub(xs[i], m))]
    IN  [sq |-> FDiv(SumSkipNa(devsq), I(Len(xs) - 1))]

\* np.abs((x - mean) / std), kept by its square: 0/0 is NaN, d/0 is inf
AbsZScore(x, mean, std) ==
    [sq |-> FDiv(FMul(FSub(x, mean), FSub(x, mean)), std.sq)]

\* z_scores > z_threshold; NaN compares False, inf exceeds every threshold
ExceedsOrNaN(z, t) ==
    IsNaN(z.sq) \/ z.sq.k = "inf" \/ Sign(t) < 0 \/ FGt(z.sq, FMul(t, t))
Below(z, t) ==
    ~IsNaN(z.sq) /\ z.sq.k # "inf" /\ Sign(t) >= 0 /\ FGt(FMul(t, t), z.sq)
Exceeds(z, t) ==
    CASE IsNaN(z.sq) -> FALSE
      [] z.sq.k = "inf" -> TRUE
      [] OTHER -> Sign(t) < 0 \/ FGt(z.sq, FMul(t, t))

\* the row indices of one drug whose z-score exceeds the threshold, in row order
AnomalyIndices(df, d, t) ==
    LET mean == Mean(df[d])
        std == Std(df[d])
    IN  SelectSeq([i \in 1..NRows(df) |-> i],
                  LAMBDA i : Exceeds(AbsZScore(df[d][i], mean, std), t))

\* self.df.loc[anomaly_indices, ['Date', drug, 'Year', 'Quarter']].to_dict('records')
AnomalyRecords(df, d, t) ==
    LET idx == AnomalyIndices(df, d, t)
    IN  [k \in 1..Len(idx) |->
            [Date |-> df["Date"][idx[k]], value |-> df[d][idx[k]],
             Year |-> df["Year"][idx[k]], Quarter |-> df["Quarter"][idx[k]]]]

\* the dictionary detect_anomalies returns: only drugs with a flagged row
Anomalies(df, t) ==
    [d \in {e \in Drugs : AnomalyIndices(df, e, t) # <<>>} |-> AnomalyRecords(df, d, t)]

ZThresholds == {I(1), Num(5, 2), I(3)}
DefaultZ == Num(5, 2)

\* analytics.detect_anomalies(z_threshold); report keeps the result per threshold
DetectAnomalies ==
    /\ adf # <<>>
    /\ \E t \in ZThresholds :
          /\ t \notin DOMAIN report
          /\ report' = (t :> Anomalies(adf[1], t)) @@ report
    /\ UNCHANGED <<rng, file, adf, stats, summary, genVars, seriesVars, metricVars>>

\* the dictionary export_insights_for_gemini returns
InsightSummary(df) ==
    LET st == SummaryStats(df)
        anomalies == Anomalies(df, DefaultZ)
    IN  [performance_overview |->
             [total_sales |-> st.total_sales,
              best_drug |-> st.best_performing_drug,
              market_leader_share |-> FRound(st.market_leader_share, 100)],
         yearly_performance |-> st.yearly_totals,
         growth_metrics |-> st.yoy_growth,
         anomalies_detected |-> Cardinality(DOMAIN anomalies),
         anomaly_details |-> anomalies]

\* analytics.export_insights_for_gemini()
ExportInsights ==
    /\ adf # <<>>
    /\ summary' = <<InsightSummary(adf[1])>>
    /\ UNCHANGED <<rng, file, adf, stats, report, genVars, seriesVars, metricVars>>

----------------------------------------------------------------------------
(* inputs *)

\* a column of n integer values: lo everywhere, sp[i] at the rows i in DOMAIN sp
Shape(lo, sp) == [lo |-> lo, sp |-> sp]
Column(shape, n) ==
    [i \in 1..n |-> I(IF i \in DOMAIN shape.sp THEN shape.sp[i] ELSE shape.lo)]

\* a frame laid out as create_pharma_dataset lays it out, n monthly rows from
\* `start`, the drug columns given by shapes
MonthlyFrame(start, n, shapes) ==
    LET dates == DateRange(start, n)
    IN  [c \in {"Date", "Month", "Quarter", "Year"} \cup Drugs |->
            CASE c = "Date" -> dates
              [] c = "Month" -> [i \in 1..n |-> MonthOf(dates[i])]
              [] c = "Quarter" -> [i \in 1..n |-> QuarterOf(dates[i])]
              [] c = "Year" -> [i \in 1..n |-> YearOf(dates[i])]
              [] OTHER -> Column(shapes[c], n)]

NoSpike == <<>>
Flat == Shape(5, NoSpike)
OneSpike == Shape(5, 2 :> 9)
TwoSpikes == Shape(5, 2 :> 9 @@ 4 :> 9)
TwoLevels == Shape(5, 2 :> 9 @@ 4 :> 7)

\* the drug columns of the files the analytics reads
AnalyticsShapes ==
    {sh \in [Drugs -> {Flat, OneSpike, TwoSpikes, TwoLevels}] :
        /\ sh["Humira"] \in {Flat, OneSpike}
        /\ sh["Keytruda"] \in {Flat, TwoLevels}
        /\ sh["Revlimid"] = Flat}

Zero == Shape(0, NoSpike)
FromZero == Shape(0, 2 :> 6 @@ 13 :> 6)
Growing == Shape(3, 13 :> 4)

\* the drug columns of the frames handed to add_market_metrics
MetricShapes == [Drugs -> {Zero, FromZero, Growing}]

\* CSV rows nobody validated: any date of three months, a Lipitor value that
\* may be negative or missing
RawDates == {Ym(2022, 1), Ym(2022, 2), Ym(2022, 3)}
RawValues == {I(1), I(-1), NaN}
RawFrame(dates, values) ==
    LET n == Len(dates)
    IN  [c \in {"Date", "Month", "Quarter", "Year"} \cup Drugs |->
            CASE c = "Date" -> dates
              [] c = "Month" -> [i \in 1..n |-> MonthOf(dates[i])]
              [] c = "Quarter" -> [i \in 1..n |-> QuarterOf(dates[i])]
              [] c = "Year" -> [i \in 1..n |-> YearOf(dates[i])]
              [] c = "Lipitor" -> values
              [] OTHER -> [i \in 1..n |-> I(1)]]

----------------------------------------------------------------------------
(* specifications *)

GenIdle == gen = FALSE /\ made = <<>>
SeriesIdle == config = [c |-> drug_configs["Lipitor"], periods |-> 0] /\ sales = <<>>
MetricIdle == frame = EmptyFrame /\ before = <<>> /\ ret = <<>>
AnalyticsIdle ==
    file = EmptyFrame /\ adf = <<>> /\ stats = <<>> /\ report = <<>> /\ summary = <<>>

\* the generator: the random source is in any state when the process starts
Init ==
    /\ rng \in 0..(RngModulus - 1)
    /\ GenIdle /\ SeriesIdle /\ MetricIdle /\ AnalyticsIdle

Next == Construct \/ CreatePharmaDataset

Spec == Init /\ [][Next]_vars

\* the per-series computation over parameter sets: the four of drug_configs
\* and the flat series base=100, trend=0, seasonality=0, volatility=0
ConfigChoices ==
    {drug_configs[d] : d \in Drugs} \cup {Cfg(I(100), I(0), I(0), I(0))}

InitSeries ==
    /\ rng \in 0..(RngModulus - 1)
    /\ config \in [c : ConfigChoices, periods : PeriodChoices]
    /\ sales = <<>>
    /\ GenIdle /\ MetricIdle /\ AnalyticsIdle

NextSeries == ComputeSeries

SpecSeries == InitSeries /\ [][NextSeries]_vars

\* add_market_metrics over frames
InitMetrics ==
    /\ rng = 0
    /\ \E n \in 0..MaxMetricRows, sh \in MetricShapes :
          frame = MonthlyFrame(Ym(2022, 1), n, sh)
    /\ before = <<>> /\ ret = <<>>
    /\ GenIdle /\ SeriesIdle /\ AnalyticsIdle

NextMetrics == AddMarketMetrics

SpecMetrics == InitMetrics /\ [][NextMetrics]_vars

\* the loader over unvalidated files
InitLoad ==
    /\ rng = 0
    /\ \E n \in 0..MaxRawRows :
          \E dates \in [1..n -> RawDates], values \in [1..n -> RawValues] :
              file = RawFrame(dates, values)
    /\ adf = <<>> /\ stats = <<>> /\ report = <<>> /\ summary = <<>>
    /\ GenIdle /\ SeriesIdle /\ MetricIdle

NextLoad == Load

SpecLoad == InitLoad /\ [][NextLoad]_vars

\* anomaly detection over monthly files
InitAnomaly ==
    /\ rng = 0
    /\ \E n \in 0..MaxRows, sh \in AnalyticsShapes :
          file = MonthlyFrame(Ym(2022, 1), n, sh)
    /\ adf = <<>> /\ stats = <<>> /\ report = <<>> /\ summary = <<>>
    /\ GenIdle /\ SeriesIdle /\ MetricIdle

NextAnomaly == Load \/ DetectAnomalies

SpecAnomaly == InitAnomaly /\ [][NextAnomaly]_vars

\* summary statistics and the exported insights over monthly files
InitSummary ==
    /\ rng = 0
    /\ \E n \in 0..MaxRows, start \in StartChoices, sh \in AnalyticsShapes :
          file = MonthlyFrame(start, n, sh)
    /\ adf = <<>> /\ stats = <<>> /\ report = <<>> /\ summary = <<>>
    /\ GenIdle /\ SeriesIdle /\ MetricIdle

NextSummary == Load \/ GenerateSummaryStats \/ ExportInsights

SpecSummary == InitSummary /\ [][NextSummary]_vars

----------------------------------------------------------------------------
(* properties *)

\* C1: two create_pharma_dataset calls with the same start date and period
\* count return identical datasets
GenerateIsDeterministic ==
    \A i, j \in 1..Len(made) :
        (made[i].start = made[j].start /\ made[i].periods = made[j].periods)
            => made[i].df = made[j].df

RECURSIVE FlaggedRows(_, _)
FlaggedRows(details, j) ==
    IF j = 0 THEN 0
    ELSE FlaggedRows(details, j - 1)
         + (IF DrugCols[j] \in DOMAIN details THEN Len(details[DrugCols[j]]) ELSE 0)

\* C2: anomalies_detected of the exported summary is the number of flagged
\* rows summed over all series of anomaly_details
AnomalyCountIsTotalFlaggedRows ==
    summary # <<>> =>
        summary[1].anomalies_detected
            = FlaggedRows(summary[1].anomaly_details, Len(DrugCols))

IsConstant(xs) == \A i, j \in 1..Len(xs) : xs[i] = xs[j]

YoYGrowthAbsentExactly ==
    ret # <<>> =>
        \A d \in Drugs : \A i \in 1..NRows(ret[1]) :
            LET x == ret[1][d]
                g == ret[1][GrowthCol(d)][i]
                undefined == i <= YoYLag \/ x[i - YoYLag] = I(0)
            IN  /\ IsNaN(g) <=> undefined
                /\ ~undefined =>
                      g = FMul(FDiv(FSub(x[i], x[i - YoYLag]), x[i - YoYLag]), I(100))

\* C5: in a row whose total market is 0 every share is 0; in a row with a
\* positive total the share is value/total*100 rounded to 2 decimals
ShareZeroWhenMarketEmpty ==
    ret # <<>> =>
        \A d \in Drugs : \A i \in 1..NRows(ret[1]) :
            LET total == ret[1]["Total_Market"][i]
                share == ret[1][ShareCol(d)][i]
            IN  /\ total = I(0) => share = I(0)
                /\ FGt(total, I(0)) =>
                      share = FRound(FDiv(FMul(ret[1][d][i], I(100)), total), 100)

RowsOfYear(df, y) == {i \in 1..NRows(df) : df["Year"][i] = y}
CompleteYears(df) ==
    {y \in SeqToSet(df["Year"]) :
        {df["Month"][i] : i \in RowsOfYear(df, y)} = 1..12}

\* C6: yoy_growth, when present, compares the latest complete calendar year
\* (all 12 months in the data) with the year before it
YoYUsesLatestCompleteYear ==
    (stats # <<>> /\ stats[1].yoy_growth # <<>>) =>
        LET df == adf[1]
            full == CompleteYears(df)
        IN  /\ full # {}
            /\ LET y == CHOOSE c \in full : \A o \in full : o <= c
                   yearly == stats[1].yearly_totals
               IN  /\ (y - 1) \in DOMAIN yearly
                   /\ \A d \in Drugs :
                         stats[1].yoy_growth[1][d]
                             = FMul(FDiv(FSub(yearly[y][d], yearly[y - 1][d]),
                                         yearly[y - 1][d]), I(100))

\* C7: after add_market_metrics the frame passed in has the columns and
\* values it had when the call was made
EnrichmentLeavesInputUnchanged ==
    before # <<>> => frame = before[1]

\* SeriesDataset invariants: strictly increasing dates one month apart, a
\* value for every series in every row, no negative value
WellFormed(df) ==
    /\ \A i \in 1..(NRows(df) - 1) : df["Date"][i + 1] = df["Date"][i] + 1
    /\ \A d \in Drugs : \A i \in 1..NRows(df) :
          IsNum(df[d][i]) /\ df[d][i].n >= 0

\* C8: every dataset the analytics holds satisfies the dataset invariants
\* (a file violating them is rejected, never accepted)
LoadedDatasetIsWellFormed ==
    adf # <<>> => WellFormed(adf[1])

IsSubsequence(xs, ys) == \A k \in 1..Len(xs) : \E m \in 1..Len(ys) : ys[m] = xs[k]

\* C9: for thresholds t1 <= t2 every row flagged at t2 is flagged at t1, so
\* the count at t1 is at least the count at t2; flagged rows of a series are
\* listed in chronological order
ThresholdMonotone ==
    /\ \A t1, t2 \in DOMAIN report : \A d \in Drugs :
          (FGe(t2, t1) /\ d \in DOMAIN report[t2]) =>
              /\ d \in DOMAIN report[t1]
              /\ IsSubsequence(report[t2][d], report[t1][d])
              /\ Len(report[t1][d]) >= Len(report[t2][d])
    /\ \A t \in DOMAIN report : \A d \in DOMAIN report[t] :
          \A k \in 1..(Len(report[t][d]) - 1) :
              report[t][d][k].Date < report[t][d][k + 1].Date

\* C9 witness: a series with rows flagged at two thresholds, strictly more of
\* them at the lower one
ThresholdMonotoneWitness ==
    \E t1, t2 \in DOMAIN report : \E d \in Drugs :
        /\ FGt(t2, t1)
        /\ d \in DOMAIN report[t2]
        /\ d \in DOMAIN report[t1]
        /\ Len(report[t1][d]) > Len(report[t2][d])

IsFlatConfig(c) == c.trend = I(0) /\ c.seasonality = I(0) /\ c.volatility = I(0)

\* C10: every generated value is an integer, is the rounded larger of the raw
\* sum and 0.3*base, is never below round(0.3*base) and never negative; with
\* trend, seasonality and volatility 0 every value is base and the total is
\* base * periods
SalesFloorAndRounding ==
    sales # <<>> =>
        LET c == config.c
            vals == sales[1].values
            floor == FRound(FMul(c.base, Num(3, 10)), 1)
        IN  /\ Len(vals) = config.periods
            /\ \A i \in 1..Len(vals) :
                  /\ IsNum(vals[i]) /\ vals[i].d = 1 /\ vals[i].n >= 0
                  /\ FGe(vals[i], floor)
                  /\ vals[i] = FMax(FRound(RawSales(c, config.periods,
                                                    sales[1].state, i - 1), 1), floor)
                  /\ IsFlatConfig(c) => vals[i] = c.base
            /\ IsFlatConfig(c) => SumSkipNa(vals) = FMul(c.base, I(config.periods))

\* C10 witness: a noise draw so negative that the raw sum is below zero and
\* the value is the floor
SalesFloorWitness ==
    /\ sales # <<>>
    /\ \E i \in 1..Len(sales[1].values) :
          /\ FGt(I(0), RawSales(config.c, config.periods, sales[1].state, i - 1))
          /\ sales[1].values[i] = FRound(FMul(config.c.base, Num(3, 10)), 1)

=============================================================================
